---- MODULE Spec2Model ----
(***************************************************************************)
(* Model of the students-viz front end: the Controller (manifest fetch,    *)
(* filter controls, update(), device notice, page title) and the Chart     *)
(* view (init, accessors, render), with the VisualizationMap collaborator  *)
(* reduced to the contract the Controller and main.js use.                 *)
(***************************************************************************)
EXTENDS Integers, Sequences, FiniteSets, TLC

(***************************************************************************)
(* Bounds                                                                  *)
(***************************************************************************)
MaxControllers == 2     \* Controller objects constructed on one page
MaxChanges == 2         \* change events fired by the user on the selects
MaxMapChartRenders == 1 \* Chart.render(value) calls made by the map
MaxInitCalls == 3       \* direct calls of Chart.init()
MaxSetterCalls == 2     \* direct calls of a Chart setter
MaxChartRenders == 2    \* direct calls of Chart.render(value)

Controllers == 1..MaxControllers

(***************************************************************************)
(* JavaScript values that are not strings                                  *)
(***************************************************************************)
Undefined == "<js undefined>"
Null == "<js null>"
EmptyArray == "<js []>"

\* Conversion of a value inside a template literal `${v}`
TemplateStr(v) ==
    IF v = Undefined THEN "undefined"
    ELSE IF v = Null THEN "null"
    ELSE IF v = EmptyArray THEN ""
    ELSE v

\* String.prototype.indexOf(p), 1-based; 0 when p does not occur
RECURSIVE IndexFrom(_, _, _)
IndexFrom(s, p, i) ==
    IF i + Len(p) - 1 > Len(s) THEN 0
    ELSE IF SubSeq(s, i, i + Len(p) - 1) = p THEN i
    ELSE IndexFrom(s, p, i + 1)

IndexOf(s, p) == IndexFrom(s, p, 1)

\* String.prototype.replace(p, r) with a string pattern: first occurrence only
Replace(s, p, r) ==
    LET i == IndexOf(s, p) IN
    IF i = 0 THEN s
    ELSE SubSeq(s, 1, i - 1) \o r \o SubSeq(s, i + Len(p), Len(s))

(***************************************************************************)
(* Host page and configuration (Global.*, index.html)                      *)
(***************************************************************************)
DEVICE_NOTICE_COOKIE == "device-notice"
DEVICE_NOTICE_CONFIRMED_CLASS == "device-notice-confirmed"
OriginalTitles == {"Students"}
InitialInfo == "<host markup>"

\* document.cookie at page load, already split at ';'
CookieJars == { <<>>, <<"device-notice=true">>, <<"lang=de">> }

(***************************************************************************)
(* Manifests the info file can hold                                        *)
(***************************************************************************)
AttrFull == [nationality |-> <<"German", "Foreign">>,
             sex |-> <<"m", "f">>,
             semester |-> <<"S1", "S2">>]
AttrNoNationality == [sex |-> <<"m", "f">>, semester |-> <<"S1", "S2">>]
AttrNoSemester == [nationality |-> <<"German">>, sex |-> <<"m", "f">>]
AttrExtra == [nationality |-> <<"German">>, sex |-> <<"f">>,
              semester |-> <<"S1", "S2">>, state |-> <<"Bayern">>]
AttrEmptySex == [nationality |-> <<"German", "Foreign">>, sex |-> <<>>,
                 semester |-> <<"S1">>]

AttributeSets == {AttrFull, AttrNoNationality, AttrNoSemester, AttrExtra, AttrEmptySex}

Manifests ==
    { [title |-> "Growth", author |-> "Destatis", url |-> "u", file |-> "data.csv",
       attributes |-> a] : a \in AttributeSets }

\* Labels Chart.render is called with: a state name, and a semester name
RenderLabels == {"Bayern", "S2"}

\* Arguments of the direct calls of the Chart accessors
DataArgs == {"data.csv"}
KeyXArgs == {"German f", "Foreign m"}
KeyYArgs == {"S1", "S2"}

(***************************************************************************)
(* Controller.getDataInformation: markup                                   *)
(***************************************************************************)
RecognizedAttributes == <<"nationality", "sex", "semester">>

InfoMarkup(data) ==
    "<h1>" \o TemplateStr(data.title) \o "</h1><p>Publisher: "
    \o TemplateStr(data.author) \o "<br /><a href=\""
    \o TemplateStr(data.url) \o "\" target=\"_blank\">Download source data</a></p>"

FallbackMarkup ==
    "<h1>Data is not available yet.</h1><div class=\"error\">"
    \o "<p><strong>Please follow these steps to get the latest data:</strong></p>"
    \o "<p><ol><li>Open a command line.</li>"
    \o "<li>Change to the root directory of this project:<br />"
    \o "<code>cd /path/to/student-growth</code></li>"
    \o "<li>Download the latest data set using Python:<br />"
    \o "<code>python3 bin/download.py</code></li>"
    \o "<li>Click \"Refresh\" to start the visualization.</li></ol></p>"
    \o "<p><button onclick=\"window.location.reload()\">Refresh</button></p></div>"

\* One <select> per recognized attribute that the manifest has; the browser
\* selects the first <option>, or none when there is no option.
SelectFor(key, options) ==
    [name |-> key, options |-> options, sel |-> IF Len(options) > 0 THEN 1 ELSE 0]

RECURSIVE ControlsFrom(_, _)
ControlsFrom(attributes, i) ==
    IF i > Len(RecognizedAttributes) THEN <<>>
    ELSE LET key == RecognizedAttributes[i] IN
         (IF key \in DOMAIN attributes
             THEN << SelectFor(key, attributes[key]) >>
             ELSE <<>>)
         \o ControlsFrom(attributes, i + 1)

\* Variant: a <select> for every recognized attribute, empty when the manifest
\* does not have it
RECURSIVE ControlsForAll(_, _)
ControlsForAll(attributes, i) ==
    IF i > Len(RecognizedAttributes) THEN <<>>
    ELSE LET key == RecognizedAttributes[i] IN
         << SelectFor(key, IF key \in DOMAIN attributes THEN attributes[key] ELSE <<>>) >>
         \o ControlsForAll(attributes, i + 1)

ControlsMarkupAll(attributes) == ControlsForAll(attributes, 1)

ControlsMarkup(attributes) == ControlsFrom(attributes, 1)

\* $('.controls__<key> :selected').val()
SelectedVal(ctrls, key) ==
    LET m == { i \in DOMAIN ctrls : ctrls[i].name = key /\ ctrls[i].sel > 0 } IN
    IF m = {} THEN Undefined
    ELSE LET i == CHOOSE j \in m : \A k \in m : j <= k IN
         ctrls[i].options[ctrls[i].sel]

(***************************************************************************)
(* Controller.update: the keys                                             *)
(***************************************************************************)
\* Variant: the two parts in the other order
UpdateKeyXSwapped(nationality, sex) == TemplateStr(sex) \o " " \o TemplateStr(nationality)

UpdateKeyX(nationality, sex) == TemplateStr(nationality) \o " " \o TemplateStr(sex)

UpdateKeyY(semester) == semester

(***************************************************************************)
(* State                                                                   *)
(***************************************************************************)
VARIABLES
    serverManifest,   \* content of the info file (Global.INFO_FILE)
    cookiesAtLoad,    \* document.cookie when the page was loaded
    originalTitle,    \* document.title when the page was loaded
    cookies,          \* document.cookie, split at ';'
    bodyClasses,      \* classes of <body>
    confirmHandlers,  \* click handlers on the device-notice confirm button
    confirmInvoked,   \* hideDeviceNotice() has run
    pageShown,        \* page wrapper visible
    overlay,          \* fullscreen loading overlay
    mainHidden,       \* <main> hidden
    dataInfo,         \* markup of the data-info panel
    title,            \* document.title
    controls,         \* the <select>s inside the controls panel
    controlsOwner,    \* Controller whose change handlers are on the selects
    lifecycle,        \* per Controller: the phases it went through
    fetches,          \* per Controller: manifest requests issued
    updates,          \* per Controller: update() calls
    ctrl,             \* per Controller: this.data, this.dataFile
    map,              \* VisualizationMap: data, key_x, key_y
    mapPending,       \* outstanding map.render() requests
    mapIssued,        \* map.render() calls so far
    chart,            \* Chart fields
    chartDom,         \* elements appended below Global.CHART_SELECTOR
    initCalls,        \* Chart.init() calls so far
    ret,              \* value returned by the last call of a Chart method
    setterCalls,      \* direct calls of a Chart setter so far
    chartPending,     \* outstanding Chart.render() requests
    chartIssued,      \* Chart.render() calls so far
    chartShown,       \* what the chart displays
    lastCall,         \* the last call of a Chart accessor: field, arity, argument
    renderLog,        \* per direct Chart.render() call: its label, the keys then
    doneLog,          \* ids of the requests whose then callback ran, in order
    changes           \* change events so far

pageVars == << serverManifest, cookiesAtLoad, originalTitle, pageShown, overlay,
               mainHidden, dataInfo, title >>
noticeVars == << cookies, bodyClasses, confirmHandlers, confirmInvoked >>
ctrlVars == << controls, controlsOwner, lifecycle, fetches, updates, ctrl, changes >>
mapVars == << map, mapPending, mapIssued >>
chartVars == << chart, chartDom, initCalls, ret, setterCalls, chartPending,
                chartIssued, chartShown, lastCall, renderLog, doneLog >>
vars == << pageVars, noticeVars, ctrlVars, mapVars, chartVars >>

Last(s) == s[Len(s)]

Phase(c) == IF lifecycle[c] = <<>> THEN "NotConstructed" ELSE Last(lifecycle[c])

(***************************************************************************)
(* Chart                                                                   *)
(***************************************************************************)
\* new Chart(): every reference is null, no data, no keys
ChartNew ==
    [ _data |-> EmptyArray, _key_x |-> Null, _key_y |-> Null,
      _svg |-> 0, _title |-> 0, _subtitle |-> 0, _path |-> 0, _line |-> 0,
      _g |-> 0, _gX |-> 0, _gY |-> 0, _xAxis |-> 0, _yAxis |-> 0 ]

ChartDomNew ==
    [ svg |-> 0, gX |-> 0, gY |-> 0, g |-> 0, title |-> 0, subtitle |-> 0,
      line |-> 0, path |-> 0 ]

\* Variant: the element is created without looking at the field
CreateAlways(cd, field, kind) ==
    [ c |-> [cd.c EXCEPT ![field] = cd.d[kind] + 1],
      d |-> [cd.d EXCEPT ![kind] = cd.d[kind] + 1] ]

\* "if (this.<field> == null) this.<field> = <create one <kind>>": the pair of
\* the chart and the created elements after the step. References are the
\* ordinal of the created element, 0 is null.
CreateIfNull(cd, field, kind) ==
    IF cd.c[field] = 0
        THEN [ c |-> [cd.c EXCEPT ![field] = cd.d[kind] + 1],
               d |-> [cd.d EXCEPT ![kind] = cd.d[kind] + 1] ]
        ELSE cd

\* Chart.defineSettings
DefineSettings(cd) ==
    CreateIfNull(CreateIfNull(cd, "_line", "line"), "_path", "path")

\* Chart.init, on the pair of chart fields and created elements
InitSteps(cd) ==
    LET s1 == CreateIfNull(cd, "_svg", "svg")
        s2 == CreateIfNull(s1, "_gX", "gX")
        s3 == CreateIfNull(s2, "_gY", "gY")
        s4 == CreateIfNull(s3, "_g", "g")
        s5 == CreateIfNull(s4, "_title", "title")
        s6 == CreateIfNull(s5, "_subtitle", "subtitle")
    IN DefineSettings(s6)

ChartInit ==
    /\ initCalls < MaxInitCalls
    /\ LET r == InitSteps([c |-> chart, d |-> chartDom]) IN
        /\ chart' = r.c
        /\ chartDom' = r.d
    /\ initCalls' = initCalls + 1
    /\ ret' = "chart"
    /\ UNCHANGED << pageVars, noticeVars, ctrlVars, mapVars, setterCalls,
                    chartPending, chartIssued, chartShown, lastCall, renderLog,
                    doneLog >>

\* Chart.data(d), Chart.key_x(k), Chart.key_y(k) with one argument
ChartSetData(ch, d) == [ch EXCEPT !._data = d]
ChartSetKeyX(ch, k) == [ch EXCEPT !._key_x = k]
\* Variant: the y key is written into the field of the x key
ChartSetKeyYIntoX(ch, k) == [ch EXCEPT !._key_x = k]

ChartSetKeyY(ch, k) == [ch EXCEPT !._key_y = k]

(***************************************************************************)
(* VisualizationMap: the contract of the peer view                         *)
(***************************************************************************)
MapNew == [ data |-> EmptyArray, key_x |-> Null, key_y |-> Null ]

MapSetData(m, d) == [m EXCEPT !.data = d]
MapSetKeyX(m, k) == [m EXCEPT !.key_x = k]
MapSetKeyY(m, k) == [m EXCEPT !.key_y = k]

\* map.render(): an asynchronous request, issued by Controller c
MapRequest(c, first) == [id |-> mapIssued + 1, by |-> c, first |-> first]

(***************************************************************************)
(* Controller: device notice                                               *)
(***************************************************************************)
\* cookies.some(c => c.indexOf(`${Global.DEVICE_NOTICE_COOKIE}=`) >= 0)
HasNoticeCookie(jar) ==
    \E i \in DOMAIN jar : IndexOf(jar[i], DEVICE_NOTICE_COOKIE \o "=") > 0

\* Controller.initDeviceNotice: the classes of <body> afterwards
InitDeviceNotice(classes, jar) ==
    IF HasNoticeCookie(jar) THEN classes \cup {DEVICE_NOTICE_CONFIRMED_CLASS}
    ELSE classes

CookieName(c) ==
    LET i == IndexOf(c, "=") IN IF i = 0 THEN c ELSE SubSeq(c, 1, i - 1)

\* document.cookie = `${name}=${value}`: replaces the cookie of that name
SetCookie(jar, name, value) ==
    SelectSeq(jar, LAMBDA c : CookieName(c) # name) \o << name \o "=" \o value >>

\* Controller.hideDeviceNotice
HideDeviceNotice ==
    /\ cookies' = SetCookie(cookies, DEVICE_NOTICE_COOKIE, "true")
    /\ bodyClasses' = bodyClasses \cup {DEVICE_NOTICE_CONFIRMED_CLASS}
    /\ confirmInvoked' = TRUE

\* click on Global.DEVICE_NOTICE_CONFIRM_SELECTOR: runs the registered handlers
ConfirmClick ==
    /\ confirmHandlers > 0
    /\ HideDeviceNotice
    /\ UNCHANGED << confirmHandlers, pageVars, ctrlVars, mapVars, chartVars >>

(***************************************************************************)
(* Controller: overlay and page                                            *)
(***************************************************************************)
\* Controller.closeFullscreen: the overlay and its children fade out
CloseFullscreen(o) == [o EXCEPT !.visible = FALSE]

\* Controller.initSpinner: the spinner markup is put into the overlay
InitSpinner(o) == [o EXCEPT !.content = "spinner"]

(***************************************************************************)
(* Controller: the join before the overlay is closed                       *)
(***************************************************************************)
\* What the three arguments of $.when evaluate to
ObjectValue == [kind |-> "object", id |-> 0]
UndefinedValue == [kind |-> "undefined", id |-> 0]

MapDataReturn == ObjectValue      \* map.data(file) returns the map
ChartDataReturn == ObjectValue    \* chart.data(file) returns the chart
UpdateReturn(req) == UndefinedValue   \* update() has no return statement

\* $.when(args) is resolved when no argument is a promise that is pending
WhenResolved(args, pending) ==
    \A i \in DOMAIN args :
        args[i].kind = "promise" => args[i].id \notin { r.id : r \in pending }

(***************************************************************************)
(* Controller                                                              *)
(***************************************************************************)
CtrlNew == [ data |-> {}, dataFile |-> "", join |-> <<>>, waiting |-> FALSE ]

\* new Controller(map, chart), after main.js has initialised the chart
Construct(c) ==
    /\ lifecycle[c] = <<>>
    /\ IF c = 1 THEN TRUE ELSE lifecycle[c - 1] # <<>>
    /\ ctrl' = [ctrl EXCEPT ![c] = CtrlNew]
    /\ pageShown' = FALSE
    /\ overlay' = InitSpinner(overlay)
    /\ fetches' = [fetches EXCEPT ![c] = fetches[c] + 1]
    /\ lifecycle' = [lifecycle EXCEPT ![c] = << "Loading" >>]
    /\ UNCHANGED << serverManifest, cookiesAtLoad, originalTitle, mainHidden,
                    dataInfo, title, noticeVars, controls, controlsOwner,
                    updates, changes, mapVars, chartVars >>

\* Variant: the keys are set but the map is not rendered
UpdateNoRender(c, ctrls, first) ==
    LET key_x == UpdateKeyX(SelectedVal(ctrls, "nationality"), SelectedVal(ctrls, "sex"))
        key_y == UpdateKeyY(SelectedVal(ctrls, "semester"))
    IN
    /\ map' = MapSetKeyY(MapSetKeyX(IF first THEN MapSetData(map, serverManifest.file)
                                             ELSE map, key_x), key_y)
    /\ chart' = ChartSetKeyY(ChartSetKeyX(IF first
                                             THEN ChartSetData(chart, serverManifest.file)
                                             ELSE chart, key_x), key_y)
    /\ UNCHANGED << mapPending, mapIssued >>
    /\ updates' = [updates EXCEPT ![c] = updates[c] + 1]

\* Controller.update() of Controller c on the selects ctrls
Update(c, ctrls, first) ==
    LET nationality == SelectedVal(ctrls, "nationality")
        sex == SelectedVal(ctrls, "sex")
        key_x == UpdateKeyX(nationality, sex)
        key_y == UpdateKeyY(SelectedVal(ctrls, "semester"))
    IN
    /\ map' = MapSetKeyY(MapSetKeyX(IF first THEN MapSetData(map, serverManifest.file)
                                             ELSE map, key_x), key_y)
    /\ chart' = ChartSetKeyY(ChartSetKeyX(IF first
                                             THEN ChartSetData(chart, serverManifest.file)
                                             ELSE chart, key_x), key_y)
    /\ mapPending' = mapPending \cup {MapRequest(c, first)}
    /\ mapIssued' = mapIssued + 1
    /\ updates' = [updates EXCEPT ![c] = updates[c] + 1]

\* .done(data => ...) followed by .always(...)
ManifestDone(c) ==
    /\ Phase(c) = "Loading"
    /\ LET data == serverManifest
           args == << MapDataReturn, ChartDataReturn, UpdateReturn(MapRequest(c, TRUE)) >>
           resolved == WhenResolved(args, mapPending')
       IN
        /\ dataInfo' = InfoMarkup(data)
        /\ controls' = ControlsMarkup(data.attributes)
        /\ controlsOwner' = c
        /\ bodyClasses' = InitDeviceNotice(bodyClasses, cookies)
        /\ Update(c, controls', TRUE)
        /\ ctrl' = [ctrl EXCEPT ![c] = [ data |-> {data}, dataFile |-> data.file,
                                         join |-> args, waiting |-> ~resolved ]]
        /\ overlay' = IF resolved THEN CloseFullscreen(overlay) ELSE overlay
        /\ confirmHandlers' = confirmHandlers + 1
        /\ title' = TemplateStr(title) \o ": " \o TemplateStr(data.title)
    /\ pageShown' = TRUE
    /\ lifecycle' = [lifecycle EXCEPT ![c] = @ \o << "FiltersReady", "Interactive" >>]
    /\ UNCHANGED << serverManifest, cookiesAtLoad, originalTitle, mainHidden,
                    cookies, confirmInvoked, fetches, changes, chartDom, initCalls,
                    ret, setterCalls, chartPending, chartIssued, chartShown,
                    lastCall, renderLog, doneLog >>

\* Variant: the fallback is shown but <main> stays visible
ManifestFailKeepsMain(c) ==
    /\ Phase(c) = "Loading"
    /\ dataInfo' = FallbackMarkup
    /\ overlay' = CloseFullscreen(overlay)
    /\ pageShown' = TRUE
    /\ lifecycle' = [lifecycle EXCEPT ![c] = @ \o << "ErrorDisplayed" >>]
    /\ UNCHANGED << serverManifest, cookiesAtLoad, originalTitle, mainHidden, title,
                    noticeVars, controls, controlsOwner, fetches, updates, ctrl,
                    changes, mapVars, chartVars >>

\* Variant: a failed request is issued once more
ManifestFailRetry(c) ==
    /\ Phase(c) = "Loading"
    /\ dataInfo' = FallbackMarkup
    /\ mainHidden' = TRUE
    /\ overlay' = CloseFullscreen(overlay)
    /\ pageShown' = TRUE
    /\ IF fetches[c] < 2
         THEN /\ fetches' = [fetches EXCEPT ![c] = fetches[c] + 1]
              /\ lifecycle' = [lifecycle EXCEPT ![c] = @ \o << "ErrorDisplayed", "Loading" >>]
         ELSE /\ fetches' = fetches
              /\ lifecycle' = [lifecycle EXCEPT ![c] = @ \o << "ErrorDisplayed" >>]
    /\ UNCHANGED << serverManifest, cookiesAtLoad, originalTitle, title, noticeVars,
                    controls, controlsOwner, updates, ctrl, changes, mapVars,
                    chartVars >>

\* .fail(() => ...) followed by .always(...)
ManifestFail(c) ==
    /\ Phase(c) = "Loading"
    /\ dataInfo' = FallbackMarkup
    /\ mainHidden' = TRUE
    /\ overlay' = CloseFullscreen(overlay)
    /\ pageShown' = TRUE
    /\ lifecycle' = [lifecycle EXCEPT ![c] = @ \o << "ErrorDisplayed" >>]
    /\ UNCHANGED << serverManifest, cookiesAtLoad, originalTitle, title, noticeVars,
                    controls, controlsOwner, fetches, updates, ctrl, changes,
                    mapVars, chartVars >>

\* change event on the i-th select after the user picked its k-th option
ControlChange(i, k) ==
    /\ controlsOwner # 0
    /\ changes < MaxChanges
    /\ i \in DOMAIN controls
    /\ k \in 1..Len(controls[i].options)
    /\ k # controls[i].sel
    /\ controls' = [controls EXCEPT ![i].sel = k]
    /\ Update(controlsOwner, controls', FALSE)
    /\ changes' = changes + 1
    /\ UNCHANGED << pageVars, noticeVars, controlsOwner, lifecycle, fetches, ctrl,
                    chartDom, initCalls, ret, setterCalls, chartPending, chartIssued,
                    chartShown, lastCall, renderLog, doneLog >>

(***************************************************************************)
(* VisualizationMap.render completes                                       *)
(***************************************************************************)
MapRenderDone(r) ==
    /\ r \in mapPending
    /\ mapPending' = mapPending \ {r}
    /\ LET released == { c \in Controllers :
                            /\ ctrl[c].waiting
                            /\ WhenResolved(ctrl[c].join, mapPending') }
       IN
        /\ ctrl' = [c \in Controllers |->
                      IF c \in released THEN [ctrl[c] EXCEPT !.waiting = FALSE]
                      ELSE ctrl[c]]
        /\ overlay' = IF released # {} THEN CloseFullscreen(overlay) ELSE overlay
    /\ UNCHANGED << serverManifest, cookiesAtLoad, originalTitle, pageShown,
                    mainHidden, dataInfo, title, noticeVars, controls,
                    controlsOwner, lifecycle, fetches, updates, changes, map,
                    mapIssued, chartVars >>

(***************************************************************************)
(* Chart.render                                                            *)
(***************************************************************************)
\* Chart.render(value): d3.csv(this._data) is requested
ChartRender(value) ==
    /\ chartPending' = chartPending \cup {[id |-> chartIssued + 1, value |-> value]}
    /\ chartIssued' = chartIssued + 1
    /\ UNCHANGED << chart, chartDom, initCalls, ret, setterCalls, chartShown,
                    lastCall, doneLog >>

\* this._subtitle.text(this._key_x.replace(" ", " | "))
Subtitle(key_x) == Replace(key_x, " ", " | ")

\* What the chart displays after the .then(data => ...) of a render(value):
\* this._title.text(value) throws when init() has not run, and
\* this._key_x.replace throws, after the title is set, when no key is set.
Redraw(ch, shown, value) ==
    IF ch._title = 0 THEN shown
    ELSE IF ch._key_x = Null THEN [shown EXCEPT !.title = value]
    ELSE [ title |-> value, subtitle |-> Subtitle(ch._key_x),
           column |-> ch._key_x, active |-> ch._key_y ]

\* The axes are created by the first redraw that gets that far
AxesAfterRedraw(ch) ==
    IF ch._title = 0 \/ ch._key_x = Null THEN ch
    ELSE [ch EXCEPT !._xAxis = 1, !._yAxis = 1]

\* Variant: a response is discarded unless it answers the latest request
ChartRenderDoneLatestOnly(r) ==
    /\ r \in chartPending
    /\ chartPending' = chartPending \ {r}
    /\ chartShown' = IF r.id = chartIssued THEN Redraw(chart, chartShown, r.value)
                     ELSE chartShown
    /\ chart' = IF r.id = chartIssued THEN AxesAfterRedraw(chart) ELSE chart
    /\ doneLog' = Append(doneLog, r.id)
    /\ UNCHANGED << pageVars, noticeVars, ctrlVars, mapVars, chartDom, initCalls,
                    ret, setterCalls, chartIssued, lastCall, renderLog >>

\* the .then(data => ...) of request r: redraw with the fields as they are now
ChartRenderDone(r) ==
    /\ r \in chartPending
    /\ chartPending' = chartPending \ {r}
    /\ chartShown' = Redraw(chart, chartShown, r.value)
    /\ chart' = AxesAfterRedraw(chart)
    /\ doneLog' = Append(doneLog, r.id)
    /\ UNCHANGED << pageVars, noticeVars, ctrlVars, mapVars, chartDom, initCalls,
                    ret, setterCalls, chartIssued, lastCall, renderLog >>

\* d3.csv rejects: nothing is drawn
ChartRenderFail(r) ==
    /\ r \in chartPending
    /\ chartPending' = chartPending \ {r}
    /\ UNCHANGED << pageVars, noticeVars, ctrlVars, mapVars, chart, chartDom,
                    initCalls, ret, setterCalls, chartIssued, chartShown, lastCall,
                    renderLog, doneLog >>

\* The map calls this._chart.render(value) once a Controller has started it
MapCallsChartRender(value) ==
    /\ \E c \in Controllers : Phase(c) = "Interactive"
    /\ chartIssued < MaxMapChartRenders
    /\ ChartRender(value)
    /\ UNCHANGED << pageVars, noticeVars, ctrlVars, mapVars, renderLog >>

(***************************************************************************)
(* Direct calls of the Chart interface                                     *)
(***************************************************************************)
CallRender(value) ==
    /\ chartIssued < MaxChartRenders
    /\ ChartRender(value)
    /\ renderLog' = Append(renderLog, [ value |-> value, key_x |-> chart._key_x,
                                        key_y |-> chart._key_y ])
    /\ UNCHANGED << pageVars, noticeVars, ctrlVars, mapVars >>

\* No accessor has been called yet
NoCall == [ field |-> "", argc |-> 0, arg |-> Undefined ]

\* chart.data(d), chart.key_x(k), chart.key_y(k): store and return the chart
CallSetData(d) ==
    /\ setterCalls < MaxSetterCalls
    /\ chart' = ChartSetData(chart, d)
    /\ ret' = "chart"
    /\ setterCalls' = setterCalls + 1
    /\ lastCall' = [ field |-> "_data", argc |-> 1, arg |-> d ]
    /\ UNCHANGED << pageVars, noticeVars, ctrlVars, mapVars, chartDom, initCalls,
                    chartPending, chartIssued, chartShown, renderLog, doneLog >>

CallSetKeyX(k) ==
    /\ setterCalls < MaxSetterCalls
    /\ chart' = ChartSetKeyX(chart, k)
    /\ ret' = "chart"
    /\ setterCalls' = setterCalls + 1
    /\ lastCall' = [ field |-> "_key_x", argc |-> 1, arg |-> k ]
    /\ UNCHANGED << pageVars, noticeVars, ctrlVars, mapVars, chartDom, initCalls,
                    chartPending, chartIssued, chartShown, renderLog, doneLog >>

CallSetKeyY(k) ==
    /\ setterCalls < MaxSetterCalls
    /\ chart' = ChartSetKeyY(chart, k)
    /\ ret' = "chart"
    /\ setterCalls' = setterCalls + 1
    /\ lastCall' = [ field |-> "_key_y", argc |-> 1, arg |-> k ]
    /\ UNCHANGED << pageVars, noticeVars, ctrlVars, mapVars, chartDom, initCalls,
                    chartPending, chartIssued, chartShown, renderLog, doneLog >>

\* chart.data(), chart.key_x(), chart.key_y(): return the field
ChartGet(ch, field) == ch[field]

CallGet(field) ==
    /\ ret' = ChartGet(chart, field)
    /\ lastCall' = [ field |-> field, argc |-> 0, arg |-> Undefined ]
    /\ UNCHANGED << pageVars, noticeVars, ctrlVars, mapVars, chart, chartDom,
                    initCalls, setterCalls, chartPending, chartIssued, chartShown,
                    renderLog, doneLog >>

(***************************************************************************)
(* Specifications                                                          *)
(***************************************************************************)
\* The page before main.js runs
InitPage ==
    /\ serverManifest \in Manifests
    /\ cookiesAtLoad \in CookieJars
    /\ originalTitle \in OriginalTitles
    /\ cookies = cookiesAtLoad
    /\ bodyClasses = {}
    /\ confirmHandlers = 0
    /\ confirmInvoked = FALSE
    /\ pageShown = TRUE
    /\ overlay = [content |-> "empty", visible |-> TRUE]
    /\ mainHidden = FALSE
    /\ dataInfo = InitialInfo
    /\ title = originalTitle
    /\ controls = <<>>
    /\ controlsOwner = 0
    /\ lifecycle = [c \in Controllers |-> <<>>]
    /\ fetches = [c \in Controllers |-> 0]
    /\ updates = [c \in Controllers |-> 0]
    /\ ctrl = [c \in Controllers |-> CtrlNew]
    /\ changes = 0
    /\ map = MapNew
    /\ mapPending = {}
    /\ mapIssued = 0
    /\ setterCalls = 0
    /\ chartPending = {}
    /\ chartIssued = 0
    /\ chartShown = [ title |-> "", subtitle |-> "", column |-> Null, active |-> Null ]
    /\ lastCall = NoCall
    /\ renderLog = <<>>
    /\ doneLog = <<>>

\* main.js: new Chart().init(), new VisualizationMap().geo(..).chart(chart);
\* the Controllers are constructed from here on.
Init ==
    /\ InitPage
    /\ LET r == InitSteps([c |-> ChartNew, d |-> ChartDomNew]) IN
        /\ chart = r.c
        /\ chartDom = r.d
    /\ initCalls = 1
    /\ ret = "chart"

Next ==
    \/ \E c \in Controllers : Construct(c)
    \/ \E c \in Controllers : ManifestDone(c)
    \/ \E c \in Controllers : ManifestFail(c)
    \/ \E i \in 1..Len(RecognizedAttributes), k \in 1..2 : ControlChange(i, k)
    \/ ConfirmClick
    \/ \E r \in mapPending : MapRenderDone(r)
    \/ \E v \in RenderLabels : MapCallsChartRender(v)
    \/ \E r \in chartPending : ChartRenderDone(r)
    \/ \E r \in chartPending : ChartRenderFail(r)

Spec == Init /\ [][Next]_vars

\* The Chart on its own: new Chart(), then any calls of its interface
InitChart ==
    /\ InitPage
    /\ serverManifest.attributes = AttrFull
    /\ cookiesAtLoad = <<>>
    /\ chart = ChartNew
    /\ chartDom = ChartDomNew
    /\ initCalls = 0
    /\ ret = Undefined

NextChart ==
    \/ ChartInit
    \/ \E d \in DataArgs : CallSetData(d)
    \/ \E k \in KeyXArgs : CallSetKeyX(k)
    \/ \E k \in KeyYArgs : CallSetKeyY(k)
    \/ \E f \in {"_data", "_key_x", "_key_y"} : CallGet(f)
    \/ \E v \in RenderLabels : CallRender(v)
    \/ \E r \in chartPending : ChartRenderDone(r)
    \/ \E r \in chartPending : ChartRenderFail(r)

SpecChart == InitChart /\ [][NextChart]_vars

(***************************************************************************)
(* Properties                                                              *)
(***************************************************************************)
Range(f) == { f[x] : x \in DOMAIN f }

Settled(c) == Phase(c) \in {"Interactive", "ErrorDisplayed"}

FailStep(c) ==
    /\ Phase(c) = "Loading"
    /\ lifecycle'[c] = << "Loading", "ErrorDisplayed" >>

\* C1: when the manifest request of a Controller fails, the data-info panel
\* gets the fallback message and <main> is hidden, and that Controller builds
\* no select, binds no data to a view and issues no update() or render.
C1_FailShowsFallback ==
    [][\A c \in Controllers :
        /\ FailStep(c) =>
            /\ dataInfo' = FallbackMarkup
            /\ mainHidden'
            /\ controls' = controls /\ controlsOwner' = controlsOwner
            /\ map' = map /\ chart' = chart
            /\ updates' = updates
            /\ mapIssued' = mapIssued /\ mapPending' = mapPending
            /\ chartIssued' = chartIssued
        /\ lifecycle'[c] = << "Loading", "ErrorDisplayed" >> =>
            /\ updates'[c] = 0
            /\ controlsOwner' # c
            /\ ctrl'[c].data = {}
            /\ \A r \in mapPending' : r.by # c
      ]_vars

C1_Witness ==
    \E c \in Controllers :
        /\ Phase(c) = "ErrorDisplayed"
        /\ dataInfo = FallbackMarkup
        /\ mainHidden
        /\ controls = <<>>

\* C2: on the success path the overlay is closed and the page revealed only
\* once the data binds and the first update(), with the render it starts,
\* have completed: never revealed while that render is outstanding.
C2_RevealOnlyAfterJoin ==
    \A c \in Controllers :
        (Phase(c) = "Interactive" /\ pageShown /\ ~overlay.visible)
            => ~ \E r \in mapPending : r.by = c /\ r.first

\* C3: the selects built are exactly the recognized attribute names that the
\* manifest has, one each.
C3_ControlsAreManifestAttributes ==
    /\ controlsOwner = 0 => controls = <<>>
    /\ controlsOwner # 0 =>
        /\ { controls[i].name : i \in DOMAIN controls }
             = Range(RecognizedAttributes) \cap DOMAIN serverManifest.attributes
        /\ \A i, j \in DOMAIN controls : controls[i].name = controls[j].name => i = j
        /\ \A i \in DOMAIN controls :
             controls[i].options = serverManifest.attributes[controls[i].name]

C3_Witness ==
    /\ controlsOwner # 0
    /\ "nationality" \notin DOMAIN serverManifest.attributes
    /\ { controls[i].name : i \in DOMAIN controls } = {"sex", "semester"}

\* C4: after every update() map and chart hold the same keys: key_x is the
\* selected nationality, one space, the selected sex; key_y is the selected
\* semester.
C4_UpdateKeys ==
    [][updates' # updates =>
        LET nationality == SelectedVal(controls', "nationality")
            sex == SelectedVal(controls', "sex")
        IN
        /\ (nationality # Undefined /\ sex # Undefined)
              => map'.key_x = nationality \o " " \o sex
        /\ map'.key_y = SelectedVal(controls', "semester")
        /\ chart'._key_x = map'.key_x
        /\ chart'._key_y = map'.key_y
      ]_vars

C4_Witness ==
    /\ changes = 2
    /\ map.key_x = "Foreign f" /\ chart._key_x = "Foreign f"
    /\ map.key_y = "S1" /\ chart._key_y = "S1"

C6_NoticeClassIff ==
    (\E c \in Controllers : Settled(c)) =>
        ( DEVICE_NOTICE_CONFIRMED_CLASS \in bodyClasses
            <=> (HasNoticeCookie(cookiesAtLoad) \/ confirmInvoked) )

\* C7: after a successful manifest request the title is the original title,
\* ": ", the manifest title, however often the success path ran.
C7_TitleSuffixOnce ==
    (\E c \in Controllers : Phase(c) = "Interactive") =>
        title = originalTitle \o ": " \o serverManifest.title

LifecyclePaths ==
    { <<>>, << "Loading" >>, << "Loading", "FiltersReady", "Interactive" >>,
      << "Loading", "ErrorDisplayed" >> }

IsPrefix(s, t) == Len(s) <= Len(t) /\ SubSeq(t, 1, Len(s)) = s

\* C8: a Controller goes Loading -> FiltersReady -> Interactive or
\* Loading -> ErrorDisplayed, with one manifest request; update() runs only
\* in Interactive; from ErrorDisplayed nothing more happens.
C8_Lifecycle ==
    [][\A c \in Controllers :
        /\ lifecycle'[c] \in LifecyclePaths
        /\ IsPrefix(lifecycle[c], lifecycle'[c])
        /\ fetches'[c] = IF lifecycle'[c] = <<>> THEN 0 ELSE 1
        /\ updates'[c] # updates[c] =>
              lifecycle'[c] = << "Loading", "FiltersReady", "Interactive" >>
        /\ Phase(c) = "ErrorDisplayed" =>
              /\ lifecycle'[c] = lifecycle[c]
              /\ fetches'[c] = fetches[c]
              /\ updates'[c] = 0
              /\ \A r \in mapPending' : r.by # c
      ]_vars

C8_Witness ==
    \E c, d \in Controllers :
        /\ Phase(c) = "ErrorDisplayed"
        /\ Phase(d) = "Interactive"
        /\ updates[d] = 3

Enumerated(attributes, key) ==
    IF key \in DOMAIN attributes THEN Range(attributes[key]) ELSE {}

\* C9: after update() key_x is made of a nationality and a sex that the
\* manifest enumerates, and key_y is a semester that the manifest enumerates.
C9_KeysEnumerated ==
    mapIssued > 0 =>
        /\ \A v \in {map, [key_x |-> chart._key_x, key_y |-> chart._key_y]} :
            /\ v.key_x \in { n \o " " \o s :
                               n \in Enumerated(serverManifest.attributes, "nationality"),
                               s \in Enumerated(serverManifest.attributes, "sex") }
            /\ v.key_y \in Enumerated(serverManifest.attributes, "semester")

AllElements(n) ==
    [ svg |-> n, gX |-> n, gY |-> n, g |-> n, title |-> n, subtitle |-> n,
      line |-> n, path |-> n ]

\* C10: however often Chart.init() is called, each of svg, x-axis group,
\* y-axis group, main group, title, subtitle, line generator and path exists
\* once, and every call returns the chart.
C10_InitIdempotent ==
    [][initCalls' # initCalls =>
        /\ chartDom' = AllElements(1)
        /\ \A f \in {"_svg", "_gX", "_gY", "_g", "_title", "_subtitle", "_line", "_path"} :
              chart'[f] = 1
        /\ ret' = "chart"
        /\ initCalls > 0 => (chartDom' = chartDom /\ chart' = chart)
      ]_vars

C10_Witness ==
    /\ initCalls = 3
    /\ chartDom = AllElements(1)
    /\ ret = "chart"

AccessorFields == {"_data", "_key_x", "_key_y"}

SetStep == setterCalls' # setterCalls

GetStep ==
    /\ setterCalls' = setterCalls
    /\ initCalls' = initCalls
    /\ chartIssued' = chartIssued
    /\ chartPending' = chartPending

\* C11: for data, key_x and key_y, a call with one argument stores it in its
\* own field, returns the chart and leaves every other field alone; a call
\* without argument returns the field, which only its own setter changes,
\* and changes nothing.
C11_Accessors ==
    [][/\ SetStep =>
            /\ lastCall'.argc = 1
            /\ lastCall'.field \in AccessorFields
            /\ chart' = [chart EXCEPT ![lastCall'.field] = lastCall'.arg]
            /\ ret' = "chart"
            /\ chartDom' = chartDom
            /\ chartShown' = chartShown
       /\ GetStep =>
            /\ lastCall'.argc = 0
            /\ lastCall'.field \in AccessorFields
            /\ ret' = chart[lastCall'.field]
            /\ chart' = chart
            /\ chartDom' = chartDom
            /\ chartShown' = chartShown
       /\ \A f \in AccessorFields :
            chart'[f] # chart[f] => (SetStep /\ lastCall'.field = f)
      ]_vars

C11_Witness ==
    /\ setterCalls = 2
    /\ lastCall = [ field |-> "_key_x", argc |-> 0, arg |-> Undefined ]
    /\ ret = "Foreign m"
    /\ chart._key_x = "Foreign m"
    /\ chart._key_y = "S2"

\* C12: a render request is never cancelled or ordered: a new call leaves the
\* outstanding requests outstanding, and each response, whichever request it
\* answers, redraws with its own label and with the keys the chart has when
\* the response arrives.
C12_NoCancellation ==
    [][/\ chartIssued' # chartIssued =>
            /\ chartPending \subseteq chartPending'
            /\ chartShown' = chartShown
       /\ \A r \in chartPending \ chartPending' :
            /\ chartPending' = chartPending \ {r}
            /\ doneLog' = doneLog => chartShown' = chartShown
            /\ doneLog' # doneLog =>
                 /\ doneLog' = Append(doneLog, r.id)
                 /\ chart._title # 0 => chartShown'.title = r.value
                 /\ (chart._title # 0 /\ chart._key_x # Null) =>
                       /\ chartShown'.column = chart._key_x
                       /\ chartShown'.active = chart._key_y
                       /\ chartShown'.subtitle = Subtitle(chart._key_x)
      ]_vars

\* Two requests with different labels, the later one answered first: the chart
\* ends with the label of the earlier one, drawn with a key set after the call.
C12_Witness ==
    /\ chartPending = {}
    /\ Len(renderLog) = 2
    /\ doneLog = << 2, 1 >>
    /\ renderLog[1].value # renderLog[2].value
    /\ chartShown.title = renderLog[1].value
    /\ renderLog[1].key_x # Null
    /\ chartShown.column # renderLog[1].key_x
    /\ chartShown.column = chart._key_x

====
